---- MODULE Spec2Model ----
(***************************************************************************)
(* Model of the pearsh lexer (src/src/lexer.rs).                           *)
(*                                                                         *)
(* A string is a sequence of one-character strings.  The Peekable<Chars>   *)
(* iterator is the sequence of characters not yet consumed: peek() is      *)
(* Head, next() is Tail.  One action per arm of the `match c` in the scan  *)
(* loop of tokenize, plus the loop exit.                                   *)
(***************************************************************************)
EXTENDS Naturals, Sequences, FiniteSets

VARIABLES input, iter, tokens, pc, steps

vars == <<input, iter, tokens, pc, steps>>

(***************************************************************************)
(* Bounds and the inputs explored                                          *)
(***************************************************************************)
\* An input is the concatenation of at most MaxPieces pieces, all drawn
\* from the characters or all drawn from the words.
MaxPieces == 3

\* Character pieces: two of the eight single-character tokens, the five
\* operator seeds, both quotes, space / tab / newline, a backslash (an
\* unrecognised symbol), a letter and a digit.
PieceChars == {"$", ")", "=", "!", "|", "&", ">", "'", "\"",
               " ", "\t", "\n", "\\", "a", "7"}

\* Word pieces: the five keywords, a mixed-case variant, and what may stand
\* between or next to them.
PieceWords == { <<"w","h","i","l","e">>, <<"f","o","r">>, <<"i","f">>,
                <<"e","l","i","f">>, <<"e","l","s","e">>,
                <<"W","h","i","l","e">>,
                <<" ">>, <<";">>, <<"7">>, <<"'">> }

RECURSIVE InputsOf(_, _)
InputsOf(P, n) ==
    IF n = 0 THEN { <<>> }
    ELSE LET S == InputsOf(P, n - 1)
         IN  S \cup { s \o p : s \in S, p \in P }

Inputs == InputsOf({ <<c>> : c \in PieceChars }, MaxPieces)
              \cup InputsOf(PieceWords, MaxPieces)

(***************************************************************************)
(* Character classes                                                       *)
(***************************************************************************)
Letters == {"a", "w", "h", "i", "l", "e", "f", "o", "r", "s", "W"}
Digits  == {"7"}

\* char::is_alphanumeric on the characters of the model
IsAlphanumeric(c) == c \in Letters \cup Digits

\* char::is_whitespace on the characters of the model
IsWhitespace(c) == c \in {" ", "\t", "\n"}

SingleChars == {"$", ";", "(", ")", "{", "}", "[", "]"}
Seeds       == {"=", "!", "|", "&", ">"}
Quotes      == {"'", "\""}

(***************************************************************************)
(* Tokens                                                                  *)
(***************************************************************************)
Token(kind, lexeme) == [kind |-> kind, lexeme |-> lexeme]

NoToken == Token("None", <<>>)

(***************************************************************************)
(* match_two_or_one                                                        *)
(***************************************************************************)
\* A variant that consumes the lookahead character whether or not it matches.
MatchTwoOrOne_eager(it, second, if_not_match, if_match) ==
    IF it = <<>>
    THEN [panic |-> TRUE, iter |-> it, token |-> NoToken]
    ELSE LET first == Head(it)
             it1   == Tail(it)
         IN  IF it1 # <<>>
             THEN IF Head(it1) = second
                  THEN [panic |-> FALSE, iter |-> Tail(it1),
                        token |-> Token(if_match, <<first, second>>)]
                  ELSE [panic |-> FALSE, iter |-> Tail(it1),
                        token |-> Token(if_not_match, <<first>>)]
             ELSE [panic |-> FALSE, iter |-> it1,
                   token |-> Token(if_not_match, <<first>>)]

MatchTwoOrOne(it, second, if_not_match, if_match) ==
    IF it = <<>>
    THEN \* peek() is None: expect() panics
         [panic |-> TRUE, iter |-> it, token |-> NoToken]
    ELSE LET first == Head(it)
             it1   == Tail(it)          \* iter.next()
         IN  IF it1 # <<>>
             THEN IF Head(it1) = second
                  THEN [panic |-> FALSE, iter |-> Tail(it1),
                        token |-> Token(if_match, <<first, second>>)]
                  ELSE [panic |-> FALSE, iter |-> it1,
                        token |-> Token(if_not_match, <<first>>)]
             ELSE [panic |-> FALSE, iter |-> it1,
                   token |-> Token(if_not_match, <<first>>)]

(***************************************************************************)
(* Iterator adaptors                                                       *)
(***************************************************************************)
\* The number of leading alphanumeric characters of it
RECURSIVE AlnumRun(_)
AlnumRun(it) ==
    IF it # <<>> /\ IsAlphanumeric(Head(it))
    THEN 1 + AlnumRun(Tail(it))
    ELSE 0

\* itertools peeking_take_while(|&x| x.is_alphanumeric()): takes the longest
\* alphanumeric prefix and leaves the first other character in the iterator.
PeekingTakeWhileAlnum(it) ==
    LET n == AlnumRun(it)
    IN  [taken |-> SubSeq(it, 1, n), iter |-> SubSeq(it, n + 1, Len(it))]

\* The number of leading characters of it that differ from ch
RECURSIVE RunNe(_, _)
RunNe(it, ch) ==
    IF it # <<>> /\ Head(it) # ch
    THEN 1 + RunNe(Tail(it), ch)
    ELSE 0

\* As RunNe, but a backslash protects the character that follows it.
RECURSIVE RunNe_escape(_, _)
RunNe_escape(it, ch) ==
    IF it = <<>> THEN 0
    ELSE IF Head(it) = "\\" /\ Len(it) >= 2
    THEN 2 + RunNe_escape(Tail(Tail(it)), ch)
    ELSE IF Head(it) # ch
    THEN 1 + RunNe_escape(Tail(it), ch)
    ELSE 0

\* A variant in which a backslash protects the character that follows it.
TakeWhileNe_escape(it, ch) ==
    LET n == RunNe_escape(it, ch)
    IN  [taken   |-> SubSeq(it, 1, n),
         iter    |-> IF n < Len(it) THEN SubSeq(it, n + 2, Len(it)) ELSE <<>>,
         stopped |-> n < Len(it)]

\* Iterator::take_while(|&x| x != ch) on iter.by_ref(): takes the characters
\* before the first ch; the ch that ends the run is consumed as well and
\* dropped.  stopped tells whether such a ch was met before the end.
TakeWhileNe(it, ch) ==
    LET n == RunNe(it, ch)
    IN  [taken   |-> SubSeq(it, 1, n),
         iter    |-> IF n < Len(it) THEN SubSeq(it, n + 2, Len(it)) ELSE <<>>,
         stopped |-> n < Len(it)]

(***************************************************************************)
(* The arms of `match c`                                                   *)
(* Each takes the iterator at the top of the loop (c is its head) and      *)
(* gives the iterator after the arm, the tokens pushed, the raw text the   *)
(* arm matched, and whether it panicked.                                   *)
(***************************************************************************)
Result(it, emit, span) ==
    [iter |-> it, emit |-> emit, span |-> span, panic |-> FALSE]

SingleKind(c) ==
    CASE c = "$" -> "Dollar"
      [] c = ";" -> "Semicolon"
      [] c = "(" -> "LParen"
      [] c = ")" -> "RParen"
      [] c = "{" -> "LCurly"
      [] c = "}" -> "RCurly"
      [] c = "[" -> "LSquare"
      [] c = "]" -> "RSquare"

SingleArm(it) ==
    LET c == Head(it)
    IN  Result(Tail(it), <<Token(SingleKind(c), <<c>>)>>, <<c>>)

\* A variant in which the caller consumes the seed before calling the helper.
TwoCharCall_consumed(it) ==
    LET c == Head(it)
    IN  CASE c = "=" -> MatchTwoOrOne(Tail(it), "=", "Assign", "Equality")
          [] c = "!" -> MatchTwoOrOne(Tail(it), "=", "LogicalNot", "Inequality")
          [] c = "|" -> MatchTwoOrOne(Tail(it), "|", "Pipe", "LogicalOr")
          [] c = "&" -> MatchTwoOrOne(Tail(it), "&", "Ampersand", "LogicalAnd")
          [] c = ">" -> MatchTwoOrOne(Tail(it), ">", "Redirect", "CatRedirect")

\* A variant in which the partner of '!' is '!' itself, as for '|' '&' '>'.
TwoCharCall_bang(it) ==
    LET c == Head(it)
    IN  CASE c = "=" -> MatchTwoOrOne(it, "=", "Assign", "Equality")
          [] c = "!" -> MatchTwoOrOne(it, "!", "LogicalNot", "Inequality")
          [] c = "|" -> MatchTwoOrOne(it, "|", "Pipe", "LogicalOr")
          [] c = "&" -> MatchTwoOrOne(it, "&", "Ampersand", "LogicalAnd")
          [] c = ">" -> MatchTwoOrOne(it, ">", "Redirect", "CatRedirect")

\* The five call sites of match_two_or_one
TwoCharCall(it) ==
    LET c == Head(it)
    IN  CASE c = "=" -> MatchTwoOrOne(it, "=", "Assign", "Equality")
          [] c = "!" -> MatchTwoOrOne(it, "=", "LogicalNot", "Inequality")
          [] c = "|" -> MatchTwoOrOne(it, "|", "Pipe", "LogicalOr")
          [] c = "&" -> MatchTwoOrOne(it, "&", "Ampersand", "LogicalAnd")
          [] c = ">" -> MatchTwoOrOne(it, ">", "Redirect", "CatRedirect")

TwoCharArm(it) ==
    LET r == TwoCharCall(it)
    IN  IF r.panic
        THEN [iter |-> r.iter, emit |-> <<>>, span |-> <<>>, panic |-> TRUE]
        ELSE Result(r.iter, <<r.token>>, r.token.lexeme)

\* A variant that matches keywords without regard to case.
KeywordKind_nocase(lexeme) ==
    LET low == [k \in 1..Len(lexeme) |->
                   IF lexeme[k] = "W" THEN "w" ELSE lexeme[k]]
    IN  CASE low = <<"w","h","i","l","e">> -> "While"
          [] low = <<"f","o","r">>         -> "For"
          [] low = <<"i","f">>             -> "If"
          [] low = <<"e","l","i","f">>     -> "Elif"
          [] low = <<"e","l","s","e">>     -> "Else"
          [] OTHER                         -> "Word"

KeywordKind(lexeme) ==
    CASE lexeme = <<"w","h","i","l","e">> -> "While"
      [] lexeme = <<"f","o","r">>         -> "For"
      [] lexeme = <<"i","f">>             -> "If"
      [] lexeme = <<"e","l","i","f">>     -> "Elif"
      [] lexeme = <<"e","l","s","e">>     -> "Else"
      [] OTHER                            -> "Word"

WordArm(it) ==
    LET r      == PeekingTakeWhileAlnum(it)
        lexeme == r.taken
    IN  Result(r.iter, <<Token(KeywordKind(lexeme), lexeme)>>, lexeme)

\* A variant that pushes no token for a string whose closing quote is missing.
StringArm_strict(it) ==
    LET ch   == Head(it)
        r    == TakeWhileNe(Tail(it), ch)
        word == r.taken
        raw  == <<ch>> \o word \o (IF r.stopped THEN <<ch>> ELSE <<>>)
    IN  IF ~r.stopped
        THEN Result(r.iter, <<>>, raw)
        ELSE IF ch = "'"
        THEN Result(r.iter, <<Token("OneQuoteStr", word)>>, raw)
        ELSE Result(r.iter,
                    <<Token("TwoQuoteStr", <<"\"">> \o word \o <<"\"">>)>>, raw)

StringArm(it) ==
    LET ch   == Head(it)
        r    == TakeWhileNe(Tail(it), ch)     \* after iter.next()
        word == r.taken
        raw  == <<ch>> \o word \o (IF r.stopped THEN <<ch>> ELSE <<>>)
    IN  IF ch = "'"
        THEN Result(r.iter, <<Token("OneQuoteStr", word)>>, raw)
        ELSE Result(r.iter,
                    <<Token("TwoQuoteStr", <<"\"">> \o word \o <<"\"">>)>>, raw)

\* A variant whose lexeme is the newline character itself.
NewlineArm_raw(it) ==
    Result(Tail(it), <<Token("Newline", <<Head(it)>>)>>, <<Head(it)>>)

NewlineArm(it) ==
    Result(Tail(it), <<Token("Newline", <<"\\", "n">>)>>, <<Head(it)>>)

\* A variant that forgets to advance the iterator.
WhitespaceArm_stuck(it) ==
    Result(it, <<>>, <<Head(it)>>)

WhitespaceArm(it) ==
    Result(Tail(it), <<>>, <<Head(it)>>)

\* A variant that drops an unrecognised character without a token.
UnknownArm_drop(it) ==
    Result(Tail(it), <<>>, <<Head(it)>>)

UnknownArm(it) ==
    LET c == Head(it)
    IN  Result(Tail(it), <<Token("Unknown", <<c>>)>>, <<c>>)

\* Which arm of `match c` is taken: the first whose pattern and guard hold.
ArmOf(c) ==
    IF c \in SingleChars THEN "single"
    ELSE IF c \in Seeds THEN "two"
    ELSE IF IsAlphanumeric(c) THEN "word"
    ELSE IF c \in Quotes THEN "string"
    ELSE IF c = "\n" THEN "newline"
    ELSE IF IsWhitespace(c) THEN "whitespace"
    ELSE "unknown"

\* One iteration of the loop body
Body(it) ==
    LET a == ArmOf(Head(it))
    IN  CASE a = "single"     -> SingleArm(it)
          [] a = "two"        -> TwoCharArm(it)
          [] a = "word"       -> WordArm(it)
          [] a = "string"     -> StringArm(it)
          [] a = "newline"    -> NewlineArm(it)
          [] a = "whitespace" -> WhitespaceArm(it)
          [] a = "unknown"    -> UnknownArm(it)

\* tokenize as a function of its input: the tokens returned for s
RECURSIVE Tokenize(_)
Tokenize(s) ==
    IF s = <<>> THEN <<>>
    ELSE LET r == Body(s)
         IN  IF r.panic THEN <<Token("Panic", <<>>)>>
             ELSE r.emit \o Tokenize(r.iter)

(***************************************************************************)
(* The scan loop as a state machine                                        *)
(***************************************************************************)
Init ==
    /\ input \in Inputs
    /\ iter = input
    /\ tokens = <<>>
    /\ pc = "scan"
    /\ steps = <<>>

\* The loop is entered: `while let Some(c) = iter.peek()`
AtChar == pc = "scan" /\ iter # <<>>

\* The effect of one arm; steps records, for each iteration, the arm, the
\* iterator and the number of tokens at its start, and the text it matched.
Advance(arm, r) ==
    /\ iter' = r.iter
    /\ tokens' = tokens \o r.emit
    /\ pc' = IF r.panic THEN "panic" ELSE "scan"
    /\ steps' = Append(steps, [arm |-> arm, at |-> iter, n |-> Len(tokens),
                               span |-> r.span])
    /\ UNCHANGED input

SingleCharTokens ==
    /\ AtChar
    /\ ArmOf(Head(iter)) = "single"
    /\ Advance("single", SingleArm(iter))

DoubleCharTokens ==
    /\ AtChar
    /\ ArmOf(Head(iter)) = "two"
    /\ Advance("two", TwoCharArm(iter))

\* A variant in which a keyword is recognised only at the start of a command.
Words_context ==
    /\ AtChar
    /\ ArmOf(Head(iter)) = "word"
    /\ LET r == WordArm(iter)
           first == \/ tokens = <<>>
                    \/ tokens[Len(tokens)].kind \in {"Semicolon", "Newline"}
       IN  Advance("word",
                   IF first THEN r
                   ELSE Result(r.iter, <<Token("Word", r.span)>>, r.span))

Words ==
    /\ AtChar
    /\ ArmOf(Head(iter)) = "word"
    /\ Advance("word", WordArm(iter))

Strings ==
    /\ AtChar
    /\ ArmOf(Head(iter)) = "string"
    /\ Advance("string", StringArm(iter))

Newline ==
    /\ AtChar
    /\ ArmOf(Head(iter)) = "newline"
    /\ Advance("newline", NewlineArm(iter))

SkipWhitespace ==
    /\ AtChar
    /\ ArmOf(Head(iter)) = "whitespace"
    /\ Advance("whitespace", WhitespaceArm(iter))

Unrecognized ==
    /\ AtChar
    /\ ArmOf(Head(iter)) = "unknown"
    /\ Advance("unknown", UnknownArm(iter))

\* peek() is None: the loop exits and tokens is returned
Return ==
    /\ pc = "scan"
    /\ iter = <<>>
    /\ pc' = "done"
    /\ UNCHANGED <<input, iter, tokens, steps>>

Next ==
    \/ SingleCharTokens
    \/ DoubleCharTokens
    \/ Words
    \/ Strings
    \/ Newline
    \/ SkipWhitespace
    \/ Unrecognized
    \/ Return

Spec == Init /\ [][Next]_vars

(***************************************************************************)
(* Properties                                                              *)
(* Last is the most recent iteration of the loop: Last.at is the iterator  *)
(* at its start, Emitted the tokens it pushed, iter the iterator after it. *)
(***************************************************************************)
Stepped == steps # <<>>

Last == steps[Len(steps)]

Emitted == SubSeq(tokens, Last.n + 1, Len(tokens))

RECURSIVE SpanTotal(_)
SpanTotal(ss) ==
    IF ss = <<>> THEN 0 ELSE Len(Head(ss).span) + SpanTotal(Tail(ss))

RECURSIVE SpanConcat(_)
SpanConcat(ss) ==
    IF ss = <<>> THEN <<>> ELSE Head(ss).span \o SpanConcat(Tail(ss))

Kinds(ts) == [k \in 1..Len(ts) |-> ts[k].kind]

Occurs(c, s) == \E k \in 1..Len(s) : s[k] = c

\* C1: tokenize terminates without failing: it never panics, every iteration
\* of the loop leaves strictly fewer characters in the iterator than it
\* found, so there are at most Len(input) iterations, the loop is never
\* stuck before it returns, and on return the characters accounted for by
\* all the iterations number exactly Len(input).
C1_TerminatesAllConsumed ==
    /\ pc # "panic"
    /\ (pc = "done" \/ ENABLED Next)
    /\ Len(steps) <= Len(input)
    /\ Stepped => /\ Len(iter) < Len(Last.at)
                  /\ Len(Last.span) >= 1
    /\ pc = "done" => SpanTotal(steps) = Len(input)

C1_Witness ==
    /\ pc = "done"
    /\ Len(steps) = 2
    /\ Len(input) > 2
    /\ SpanTotal(steps) = Len(input)

\* C2: the raw texts matched by the iterations so far, concatenated in
\* order, followed by the characters still in the iterator, are the input;
\* on return the matched texts alone are the input.
C2_SpansReconstructInput ==
    /\ SpanConcat(steps) \o iter = input
    /\ pc = "done" => SpanConcat(steps) = input

C2_Witness ==
    /\ pc = "done"
    /\ Len(steps) = 2
    /\ steps[1].arm = "string" /\ Len(steps[1].span) = 2
    /\ steps[2].arm = "whitespace"
    /\ SpanConcat(steps) = input

C3_Partner(c) == IF c \in {"=", "!"} THEN "=" ELSE c

C3_PairKind(c) ==
    CASE c = "=" -> "Equality"
      [] c = "!" -> "Inequality"
      [] c = "|" -> "LogicalOr"
      [] c = "&" -> "LogicalAnd"
      [] c = ">" -> "CatRedirect"

C3_OneKind(c) ==
    CASE c = "=" -> "Assign"
      [] c = "!" -> "LogicalNot"
      [] c = "|" -> "Pipe"
      [] c = "&" -> "Ampersand"
      [] c = ">" -> "Redirect"

\* C3: an iteration that starts at a seed c with partner p pushes exactly
\* one token: the pair kind with lexeme c p, consuming both, when the next
\* character is p; otherwise the single kind with lexeme c, consuming c
\* alone.  The input =! gives Assign then LogicalNot.
C3_TwoOrOne ==
    /\ (Stepped /\ Head(Last.at) \in Seeds) =>
          LET c    == Head(Last.at)
              rest == Tail(Last.at)
              p    == C3_Partner(c)
          IN  IF rest # <<>> /\ Head(rest) = p
              THEN /\ Emitted = <<Token(C3_PairKind(c), <<c, p>>)>>
                   /\ iter = Tail(rest)
              ELSE /\ Emitted = <<Token(C3_OneKind(c), <<c>>)>>
                   /\ iter = rest
    /\ (pc = "done" /\ input = <<"=", "!">>) =>
          tokens = <<Token("Assign", <<"=">>), Token("LogicalNot", <<"!">>)>>

C3_Witness ==
    /\ pc = "done"
    /\ input = <<"!", "=", "!">>
    /\ Kinds(tokens) = <<"Inequality", "LogicalNot">>

C3_WitnessAssignNot ==
    /\ pc = "done"
    /\ input = <<"=", "!">>
    /\ Kinds(tokens) = <<"Assign", "LogicalNot">>

C4_Run(s) ==
    LET k == CHOOSE k \in 0..Len(s) :
                 /\ \A j \in 1..k : IsAlphanumeric(s[j])
                 /\ (k = Len(s) \/ ~IsAlphanumeric(s[k + 1]))
    IN  SubSeq(s, 1, k)

\* C4: an iteration that starts at an alphanumeric character consumes the
\* maximal alphanumeric run and pushes exactly one token whose lexeme is the
\* run; its kind is a keyword kind exactly when the run is that keyword, and
\* Word otherwise.
C4_WordsAndKeywords ==
    (Stepped /\ IsAlphanumeric(Head(Last.at))) =>
        LET run == C4_Run(Last.at)
        IN  /\ Len(Emitted) = 1
            /\ Emitted[1].lexeme = run
            /\ iter = SubSeq(Last.at, Len(run) + 1, Len(Last.at))
            /\ Emitted[1].kind \in {"While", "For", "If", "Elif", "Else", "Word"}
            /\ Emitted[1].kind = "While" <=> run = <<"w","h","i","l","e">>
            /\ Emitted[1].kind = "For"   <=> run = <<"f","o","r">>
            /\ Emitted[1].kind = "If"    <=> run = <<"i","f">>
            /\ Emitted[1].kind = "Elif"  <=> run = <<"e","l","i","f">>
            /\ Emitted[1].kind = "Else"  <=> run = <<"e","l","s","e">>

C4_Witness ==
    /\ pc = "done"
    /\ tokens = <<Token("While", <<"w","h","i","l","e">>),
                  Token("Word", <<"W","h","i","l","e">>)>>

C4_WitnessLongerRun ==
    /\ pc = "done"
    /\ tokens = <<Token("Word", <<"i","f","7">>)>>

C5_Close(q, rest) ==
    CHOOSE k \in 1..Len(rest) :
        rest[k] = q /\ \A j \in 1..(k - 1) : rest[j] # q

\* C5: an iteration that starts at a quote q with a later q in the input
\* consumes up to and including the first later q and pushes exactly one
\* token: OneQuoteStr with the inner text for ', TwoQuoteStr with the inner
\* text between two double quotes for ".  The inner text is verbatim.
C5_TerminatedString ==
    (Stepped /\ Head(Last.at) \in Quotes /\ Occurs(Head(Last.at), Tail(Last.at))) =>
        LET q     == Head(Last.at)
            rest  == Tail(Last.at)
            k     == C5_Close(q, rest)
            inner == SubSeq(rest, 1, k - 1)
        IN  /\ iter = SubSeq(rest, k + 1, Len(rest))
            /\ Emitted = <<IF q = "'"
                           THEN Token("OneQuoteStr", inner)
                           ELSE Token("TwoQuoteStr", <<"\"">> \o inner \o <<"\"">>)>>

C5_Witness ==
    /\ pc = "done"
    /\ input = <<"\"", "\\", "\"">>
    /\ tokens = <<Token("TwoQuoteStr", <<"\"", "\\", "\"">>)>>

C5_WitnessResume ==
    /\ pc = "done"
    /\ input = <<"'", "'", "a">>
    /\ tokens = <<Token("OneQuoteStr", <<>>), Token("Word", <<"a">>)>>

\* C6: an iteration that starts at a quote q with no later q in the input
\* consumes everything to the end and pushes exactly one string token, with
\* no panic; for " the lexeme is the remaining text between two double
\* quotes; and the tokens are those of the same text with the closing quote
\* added.
C6_UnterminatedString ==
    (Stepped /\ Head(Last.at) \in Quotes /\ ~Occurs(Head(Last.at), Tail(Last.at))) =>
        LET q    == Head(Last.at)
            rest == Tail(Last.at)
        IN  /\ pc # "panic"
            /\ iter = <<>>
            /\ Emitted = <<IF q = "'"
                           THEN Token("OneQuoteStr", rest)
                           ELSE Token("TwoQuoteStr", <<"\"">> \o rest \o <<"\"">>)>>
            /\ Emitted = Tokenize(Append(Last.at, q))
            /\ pc = "done" => tokens = Tokenize(Append(input, q))

C6_Witness ==
    /\ pc = "done"
    /\ input = <<"\"", "a", "7">>
    /\ tokens = <<Token("TwoQuoteStr", <<"\"", "a", "7", "\"">>)>>

\* C7: an input of spaces and tabs only gives no token; an iteration that
\* starts at a whitespace character other than newline consumes it and
\* pushes nothing; an iteration that starts at a newline consumes it and
\* pushes exactly one Newline token whose lexeme is backslash, n.
C7_WhitespaceAndNewline ==
    /\ (pc = "done" /\ \A k \in 1..Len(input) : input[k] \in {" ", "\t"}) =>
          tokens = <<>>
    /\ (Stepped /\ IsWhitespace(Head(Last.at)) /\ Head(Last.at) # "\n") =>
          /\ Emitted = <<>>
          /\ iter = Tail(Last.at)
    /\ (Stepped /\ Head(Last.at) = "\n") =>
          /\ Emitted = <<Token("Newline", <<"\\", "n">>)>>
          /\ iter = Tail(Last.at)
    /\ (pc = "done" /\ input = <<"\n">>) =>
          tokens = <<Token("Newline", <<"\\", "n">>)>>

C7_Witness ==
    /\ pc = "done"
    /\ input = <<" ", "\t", "\n">>
    /\ tokens = <<Token("Newline", <<"\\", "n">>)>>

C7_WitnessBlank ==
    /\ pc = "done"
    /\ input = <<"\t", " ", " ">>
    /\ tokens = <<>>

C8_Recognized(c) ==
    \/ c \in {"$", ";", "(", ")", "{", "}", "[", "]"}
    \/ c \in {"=", "!", "|", "&", ">", "'", "\""}
    \/ IsAlphanumeric(c)
    \/ IsWhitespace(c)

\* C8: tokenize never panics; an iteration that starts at a character of no
\* recognised class consumes it and pushes exactly one Unknown token whose
\* lexeme is that character; an iteration that starts at a character of a
\* recognised class pushes no Unknown token.
C8_UnknownTotal ==
    /\ pc # "panic"
    /\ (Stepped /\ ~C8_Recognized(Head(Last.at))) =>
          /\ Emitted = <<Token("Unknown", <<Head(Last.at)>>)>>
          /\ iter = Tail(Last.at)
    /\ (Stepped /\ C8_Recognized(Head(Last.at))) =>
          \A k \in 1..Len(Emitted) : Emitted[k].kind # "Unknown"

C8_Witness ==
    /\ pc = "done"
    /\ input = <<"\\", "a", "\\">>
    /\ Kinds(tokens) = <<"Unknown", "Word", "Unknown">>

\* C9: match_two_or_one never panics: whenever an iteration takes a
\* two-character arm, the iterator at the call is not exhausted, the
\* character the helper reads first is the not yet consumed character at
\* the top of the loop, and that character is a seed.
C9_HelperPreconditionHolds ==
    /\ pc # "panic"
    /\ (Stepped /\ Last.arm = "two") =>
          /\ Last.at # <<>>
          /\ Head(Last.at) \in {"=", "!", "|", "&", ">"}
          /\ Len(Emitted) = 1
          /\ Emitted[1].lexeme[1] = Head(Last.at)

C9_Witness ==
    /\ pc = "done"
    /\ Stepped
    /\ Last.arm = "two"
    /\ Len(Last.at) = 1
    /\ Len(steps) = 3

\* C10: at the top of every iteration reached, the tokens pushed from there
\* on are tokenize of the rest of the input at that point: the tokens pushed
\* since, followed by tokenize of what is still in the iterator, equal
\* tokenize of the suffix; in particular tokens followed by tokenize of the
\* iterator is tokenize of the input.
C10_SuffixIndependence ==
    /\ tokens \o Tokenize(iter) = Tokenize(input)
    /\ \A k \in 1..Len(steps) :
          SubSeq(tokens, steps[k].n + 1, Len(tokens)) \o Tokenize(iter)
              = Tokenize(steps[k].at)

C10_Witness ==
    /\ pc = "done"
    /\ Len(steps) = 3
    /\ Kinds(tokens) = <<"If", "If">>
    /\ SubSeq(tokens, steps[3].n + 1, Len(tokens)) = Tokenize(steps[3].at)

====
